---- MODULE Spec2Model ----
(***************************************************************************)
(* Batch submitter: the polling service (Service.Start / Stop / eventLoop) *)
(* and the sequencer driver (GetBatchBlockRange, SubmitBatchTx).           *)
(*                                                                         *)
(* The L2 chain is a growing sequence of blocks; a block is represented by *)
(* the size of its transaction, 0 standing for an enqueued (L1-originated) *)
(* element that carries no payload. The L1 contract is represented by its  *)
(* total-elements counter and the wallet by its nonce.                     *)
(***************************************************************************)
EXTENDS Integers, Sequences, FiniteSets, TLC

(* ---- bounds of the model ---- *)
\* highest L2 block height the L2 node produces
MaxHead == 1
\* largest configured BlockOffset
MaxBlockOffset == 2
\* number of confirmed transactions after which the L1 chain mines no more
MaxNonce == 1
\* number of gas price escalations before the overall deadline of one Send
MaxEscalations == 1
\* longest element list the arithmetic of a prune is evaluated on
MaxPruneLen == 40

(* ---- inputs ---- *)
\* transaction sizes (Tx.Size()) of sequencer blocks
TxSizes == {5, 30}
\* configured MaxTxSize values: below the selector's size, just below and at
\* the size of an empty batch, room for one small sequencer element, room for
\* two contexts
MaxTxSizes == {3, 14, 15, 40, 64}

VARIABLES
    MaxTxSize,      \* cfg.MaxTxSize
    BlockOffset,    \* cfg.BlockOffset
    l2Blocks,       \* L2 chain: l2Blocks[h + 1] is the block of height h
    l1Total,        \* CTC total elements
    l1Nonce,        \* wallet nonce on L1
    ctxCancelled,   \* s.ctx is cancelled
    wg,             \* s.wg counter
    svc,            \* owner's position: "new", "started", "stopping", "stopped"
    pc,             \* position of eventLoop
    start, end, nonce,  \* eventLoop locals (the big.Int values they point to)
    gasPrice,       \* gas price of the current Send attempt
    escalations,    \* escalations made by the current Send
    published,      \* transactions broadcast by the current Send
    i,              \* SubmitBatchTx: loop variable
    batchElements,  \* SubmitBatchTx: accumulated elements
    totalTxSize,    \* SubmitBatchTx: running size estimate
    pruneLog,       \* SubmitBatchTx: old_num_txs and new_num_txs of the last prune
    shouldStartAt,  \* SubmitBatchTx: start.Uint64() taken before the prune loop
    args,           \* SubmitBatchTx: arguments of the running invocation
    sendsInFlight,  \* txMgr.Send calls that have not returned
    cyc,            \* log of the current polling cycle: calls made, metrics written
    prev            \* the latest earlier cycle that resolved a range: its start,
                    \* and whether its submission was confirmed

vars == <<MaxTxSize, BlockOffset, l2Blocks, l1Total, l1Nonce, ctxCancelled,
          wg, svc, pc, start, end, nonce, gasPrice, escalations, published,
          i, batchElements, totalTxSize, pruneLog, shouldStartAt, args,
          sendsInFlight, cyc, prev>>

cfgVars == <<MaxTxSize, BlockOffset>>
ledgerVars == <<l2Blocks, l1Total, l1Nonce>>
svcVars == <<ctxCancelled, wg, svc>>
rangeVars == <<start, end, nonce>>
sendVars == <<gasPrice, escalations, published>>
driverVars == <<i, batchElements, totalTxSize, pruneLog, shouldStartAt, args>>

\* a nil pointer, a value not yet assigned
None == 0 - 1

Min(a, b) == IF a <= b THEN a ELSE b

\* height of the latest L2 header
l2Head == Len(l2Blocks) - 1

(***************************************************************************)
(* Driver: pure parts                                                      *)
(***************************************************************************)

\* bytes of the length prefix of one sequencer transaction
TxLenSize == 3
\* bytes of the method selector (ctcABI.Methods[...].ID)
SelectorLen == 4
\* bytes of the batch header: start element, element count, context count
HeaderLen == 11
\* bytes of one batch context
ContextLen == 16

\* BatchElementFromBlock: height and transaction of the block of height h
BatchElementFromBlock(h) == [BlockNumber |-> h, Tx |-> l2Blocks[h + 1]]

\* an element with a transaction is a sequencer element, one without is enqueued
IsSequencerTx(el) == el.Tx # 0

RECURSIVE SumTxLen(_)
SumTxLen(batch) ==
    IF batch = <<>> THEN 0
    ELSE (IF IsSequencerTx(Head(batch)) THEN TxLenSize + Head(batch).Tx ELSE 0)
         + SumTxLen(Tail(batch))

\* contexts of a batch: every sequencer element opens one, and so do leading
\* enqueued elements
NumContexts(batch) ==
    Cardinality({k \in 1..Len(batch) : IsSequencerTx(batch[k])})
    + (IF batch # <<>> /\ ~IsSequencerTx(batch[1]) THEN 1 ELSE 0)

\* GenSequencerBatchParams
GenSequencerBatchParams(startAt, blockOffset, batch) ==
    [ShouldStartAtElement |-> startAt - blockOffset,
     TotalElementsToAppend |-> Len(batch),
     NumContexts |-> NumContexts(batch),
     TxBytes |-> SumTxLen(batch)]

\* len(batchParams.Serialize())
SerializeLen(params) ==
    HeaderLen + ContextLen * params.NumContexts + params.TxBytes

\* len(batchCallData): selector followed by the serialized parameters
BatchCallDataLen(params) == SelectorLen + SerializeLen(params)

\* the accumulation loop goes on while i < end
LoopCondInclusive(iv, e) == iv <= e
LoopCond(iv, e) == iv < e

\* the elements whose size enters the running total: sequencer elements
CountsEveryElement(el) == TRUE
CountsTowardsEstimate(el) == IsSequencerTx(el)

\* the size estimate that ends accumulation
EstimateExceedsBefore(total, txLen) == total > MaxTxSize
EstimateExceeds(total, txLen) == total + (TxLenSize + txLen) > MaxTxSize

\* the size comparison of the prune loop
OverMaxTxSizeArgsOnly(callDataLen) == callDataLen - SelectorLen > MaxTxSize
OverMaxTxSize(callDataLen) == callDataLen > MaxTxSize

\* element count after one prune
newBatchElementsLenTenthOff(oldLen) == oldLen - (oldLen \div 10)
newBatchElementsLen(oldLen) == (oldLen * 9) \div 10

\* the slice a prune keeps: batchElements[:newBatchElementsLen]
PruneFront(batch, n) == SubSeq(batch, Len(batch) - n + 1, Len(batch))
Prune(batch, n) == SubSeq(batch, 1, n)

\* GetBatchBlockRange: the resolved pair is inconsistent
InvalidRangeReversed(s, e) == s < e
InvalidRange(s, e) == s > e

\* txmgr: first gas price, escalation factor and ceiling
InitialGasPrice == 1
PriceFactor == 2
GasCeiling == 3

(***************************************************************************)
(* Initial state: a constructed service over a fresh L2 chain              *)
(***************************************************************************)

NoPrune == [old |-> None, new |-> None]

NoArgs == [start |-> None, end |-> None, nonce |-> None]

CycNew ==
    [balance |-> "none", ethBalanceSet |-> FALSE,
     range |-> "none", readTotal |-> None, readHead |-> None,
     nonceRead |-> FALSE, resolved |-> NoArgs,
     sendCalled |-> FALSE, submitCalls |-> 0, loggedEnd |-> None,
     sendResult |-> "none", failedInc |-> 0, submittedInc |-> 0]

\* no earlier cycle has resolved a range
NoPrev == [start |-> None, confirmed |-> FALSE]

Init ==
    /\ MaxTxSize \in MaxTxSizes
    /\ BlockOffset \in 0..MaxBlockOffset
    /\ l2Blocks = <<0>>
    /\ l1Total = 0
    /\ l1Nonce = 0
    /\ ctxCancelled = FALSE
    /\ wg = 0
    /\ svc = "new"
    /\ pc = "idle"
    /\ start = None /\ end = None /\ nonce = None
    /\ gasPrice = None /\ escalations = 0 /\ published = {}
    /\ i = None /\ batchElements = <<>> /\ totalTxSize = 0
    /\ pruneLog = NoPrune
    /\ shouldStartAt = None /\ args = NoArgs
    /\ sendsInFlight = 0
    /\ cyc = CycNew
    /\ prev = NoPrev

(***************************************************************************)
(* Owner of the service and environment                                    *)
(***************************************************************************)

\* the owner starts a constructed service once
OwnerMayStart == svc = "new"

\* Service.Start
Start ==
    /\ OwnerMayStart
    /\ wg' = wg + 1
    /\ pc' = "wait"
    /\ svc' = "started"
    /\ UNCHANGED <<cfgVars, ledgerVars, ctxCancelled, rangeVars, sendVars,
                   driverVars, sendsInFlight, cyc, prev>>

\* Service.Stop up to wg.Wait: s.cancel()
StopCancel ==
    /\ svc = "started"
    /\ ctxCancelled' = TRUE
    /\ svc' = "stopping"
    /\ UNCHANGED <<cfgVars, ledgerVars, wg, pc, rangeVars, sendVars,
                   driverVars, sendsInFlight, cyc, prev>>

\* s.wg.Wait() returns when the counter is zero
WgWaitDoneNoWait == TRUE
WgWaitDone == wg = 0

\* Service.Stop from wg.Wait to its return
StopReturn ==
    /\ svc = "stopping"
    /\ WgWaitDone
    /\ svc' = "stopped"
    /\ UNCHANGED <<cfgVars, ledgerVars, ctxCancelled, wg, pc, rangeVars,
                   sendVars, driverVars, sendsInFlight, cyc, prev>>

\* cfg.Context, the parent of s.ctx, is cancelled
ParentCancel ==
    /\ ~ctxCancelled
    /\ ctxCancelled' = TRUE
    /\ UNCHANGED <<cfgVars, ledgerVars, wg, svc, pc, rangeVars, sendVars,
                   driverVars, sendsInFlight, cyc, prev>>

\* the L2 node produces its next block
L2Produce ==
    /\ l2Head < MaxHead
    /\ \E tx \in {0} \cup TxSizes : l2Blocks' = Append(l2Blocks, tx)
    /\ UNCHANGED <<cfgVars, l1Total, l1Nonce, svcVars, pc, rangeVars,
                   sendVars, driverVars, sendsInFlight, cyc, prev>>

(***************************************************************************)
(* Service.eventLoop                                                       *)
(***************************************************************************)

\* select: time.After(PollInterval) fires and a polling cycle begins
Tick ==
    /\ pc = "wait"
    /\ pc' = "balance"
    /\ cyc' = CycNew
    /\ prev' = IF cyc.range \in {"ok", "empty"}
               THEN [start |-> start,
                     confirmed |-> cyc.sendResult = "receipt"]
               ELSE prev
    /\ start' = None /\ end' = None /\ nonce' = None
    /\ UNCHANGED <<cfgVars, ledgerVars, svcVars, sendVars, driverVars,
                   sendsInFlight>>

\* select: s.ctx.Done() is ready, the loop returns and wg.Done runs
CtxDone ==
    /\ pc = "wait"
    /\ ctxCancelled
    /\ pc' = "exited"
    /\ wg' = wg - 1
    /\ UNCHANGED <<cfgVars, ledgerVars, ctxCancelled, svc, rangeVars,
                   sendVars, driverVars, sendsInFlight, cyc, prev>>

\* where the loop goes when BalanceAt fails
BalanceErrGoesOn == "rangeL1"
BalanceErrNext == "wait"

\* L1Client.BalanceAt and the ETHBalance metric
BalanceAt ==
    /\ pc = "balance"
    /\ \/ /\ cyc' = [cyc EXCEPT !.balance = "err"]
          /\ pc' = BalanceErrNext
       \/ /\ cyc' = [cyc EXCEPT !.balance = "ok", !.ethBalanceSet = TRUE]
          /\ pc' = "rangeL1"
    /\ UNCHANGED <<cfgVars, ledgerVars, svcVars, rangeVars, sendVars,
                   driverVars, sendsInFlight, prev>>

\* start as GetBatchBlockRange computes it: the committed counter it has just
\* read, plus blockOffset
ResolvedStartCursor ==
    IF prev.start # None THEN prev.start ELSE l1Total + BlockOffset
ResolvedStart == l1Total + BlockOffset

\* end as GetBatchBlockRange computes it: one above the latest header's number
RangeEndInclusive(headerNumber) == headerNumber
RangeEnd(headerNumber) == headerNumber + 1

\* the loop's test for a range without updates
NoUpdatesNever(s, e) == FALSE
NoUpdates(s, e) == s = e

\* GetBatchBlockRange: ctcContract.GetTotalElements, start.Add(start, blockOffset)
GetTotalElements ==
    /\ pc = "rangeL1"
    /\ \/ /\ cyc' = [cyc EXCEPT !.range = "err"]
          /\ pc' = "wait"
          /\ UNCHANGED start
       \/ /\ start' = ResolvedStart
          /\ cyc' = [cyc EXCEPT !.readTotal = l1Total]
          /\ pc' = "rangeL2"
    /\ UNCHANGED <<cfgVars, ledgerVars, svcVars, end, nonce, sendVars,
                   driverVars, sendsInFlight, prev>>

\* GetBatchBlockRange: L2Client.HeaderByNumber, the range comparison, and the
\* loop's handling of the result
HeaderByNumber ==
    /\ pc = "rangeL2"
    /\ \/ /\ cyc' = [cyc EXCEPT !.range = "err"]
          /\ start' = None /\ end' = None
          /\ pc' = "wait"
       \/ LET e == RangeEnd(l2Head) IN
          IF InvalidRange(start, e)
          THEN /\ cyc' = [cyc EXCEPT !.range = "err", !.readHead = l2Head]
               /\ start' = None /\ end' = None
               /\ pc' = "wait"
          ELSE /\ end' = e
               /\ UNCHANGED start
               /\ IF NoUpdates(start, e)
                  THEN /\ cyc' = [cyc EXCEPT !.range = "empty",
                                             !.readHead = l2Head]
                       /\ pc' = "wait"
                  ELSE /\ cyc' = [cyc EXCEPT !.range = "ok",
                                             !.readHead = l2Head]
                       /\ pc' = "nonce"
    /\ UNCHANGED <<cfgVars, ledgerVars, svcVars, nonce, sendVars, driverVars,
                   sendsInFlight, prev>>

\* where the loop goes when NonceAt fails
NonceErrReturns == "exited"
NonceErrNext == "wait"

\* where the loop is while txMgr.Send runs
SendDetached == "wait"
SendCallPc == "send"

\* L1Client.NonceAt, the sendTx closure, and the call of txMgr.Send
NonceAt ==
    /\ pc = "nonce"
    /\ \/ /\ cyc' = [cyc EXCEPT !.nonceRead = TRUE]
          /\ pc' = NonceErrNext
          /\ wg' = IF NonceErrNext = "exited" THEN wg - 1 ELSE wg
          /\ UNCHANGED <<nonce, sendVars, sendsInFlight>>
       \/ /\ nonce' = l1Nonce
          /\ cyc' = [cyc EXCEPT !.nonceRead = TRUE, !.sendCalled = TRUE,
                       !.resolved = [start |-> start, end |-> end,
                                     nonce |-> l1Nonce]]
          /\ gasPrice' = InitialGasPrice
          /\ escalations' = 0
          /\ published' = {}
          /\ sendsInFlight' = sendsInFlight + 1
          /\ pc' = SendCallPc
          /\ UNCHANGED wg
    /\ UNCHANGED <<cfgVars, ledgerVars, ctxCancelled, svc, start, end,
                   driverVars, prev>>

(***************************************************************************)
(* txMgr.Send and the sendTx closure                                       *)
(***************************************************************************)

\* positions of the loop inside txMgr.Send
SendPcs == {"send", "accumulate", "serialize", "transact", "sendwait"}

\* positions of the loop inside Driver.SubmitBatchTx
SubmitPcs == {"accumulate", "serialize", "transact"}

\* the locals of SubmitBatchTx after it has returned
DriverIdle ==
    /\ i' = None
    /\ batchElements' = <<>>
    /\ totalTxSize' = 0
    /\ pruneLog' = NoPrune
    /\ shouldStartAt' = None
    /\ args' = NoArgs

\* txMgr.Send, Broadcasting: sendTx(ctx, gasPrice) calls SubmitBatchTx with
\* the closure's start, end and nonce; i := new(big.Int).Set(start)
SendBroadcast ==
    /\ pc = "send"
    /\ args' = [start |-> start, end |-> end, nonce |-> nonce]
    /\ i' = start
    /\ batchElements' = <<>>
    /\ totalTxSize' = 0
    /\ pruneLog' = NoPrune
    /\ shouldStartAt' = None
    /\ cyc' = [cyc EXCEPT !.submitCalls = @ + 1]
    /\ pc' = "accumulate"
    /\ UNCHANGED <<cfgVars, ledgerVars, svcVars, rangeVars, sendVars,
                   sendsInFlight, prev>>

\* i.Add(i, bigOne) on a loop variable that is start itself, not a copy
AdvanceAliased ==
    /\ i' = i + 1
    /\ start' = start + 1
    /\ UNCHANGED <<end, nonce>>

\* i.Add(i, bigOne)
Advance ==
    /\ i' = i + 1
    /\ UNCHANGED rangeVars

\* SubmitBatchTx: one pass of the accumulation loop, and its exit to
\* shouldStartAt := start.Uint64()
Accumulate ==
    /\ pc = "accumulate"
    /\ IF LoopCond(i, end)
       THEN \/ \* BlockByNumber fails: SubmitBatchTx and sendTx return the error
               /\ pc' = "sendwait"
               /\ DriverIdle
               /\ UNCHANGED rangeVars
            \/ /\ i <= l2Head
               /\ LET batchElement == BatchElementFromBlock(i) IN
                  IF /\ CountsTowardsEstimate(batchElement)
                     /\ EstimateExceeds(totalTxSize, batchElement.Tx)
                  THEN \* break
                       /\ pc' = "serialize"
                       /\ shouldStartAt' = start
                       /\ UNCHANGED <<i, batchElements, totalTxSize, args,
                                      pruneLog, rangeVars>>
                  ELSE /\ totalTxSize' =
                              IF CountsTowardsEstimate(batchElement)
                              THEN totalTxSize + (TxLenSize + batchElement.Tx)
                              ELSE totalTxSize
                       /\ batchElements' = Append(batchElements, batchElement)
                       /\ Advance
                       /\ pc' = "accumulate"
                       /\ UNCHANGED <<shouldStartAt, args, pruneLog>>
       ELSE /\ pc' = "serialize"
            /\ shouldStartAt' = start
            /\ UNCHANGED <<i, batchElements, totalTxSize, args, pruneLog,
                           rangeVars>>
    /\ UNCHANGED <<cfgVars, ledgerVars, svcVars, sendVars, sendsInFlight, cyc,
                   prev>>

\* the call data of the current elements
batchCallDataLen ==
    BatchCallDataLen(
        GenSequencerBatchParams(shouldStartAt, BlockOffset, batchElements))

\* SubmitBatchTx: one pass of the serialize-and-prune loop
Serialize ==
    /\ pc = "serialize"
    /\ IF OverMaxTxSize(batchCallDataLen)
       THEN \* prune and continue
            /\ batchElements' =
                   Prune(batchElements,
                         newBatchElementsLen(Len(batchElements)))
            /\ pruneLog' =
                   [old |-> Len(batchElements),
                    new |-> newBatchElementsLen(Len(batchElements))]
            /\ pc' = "serialize"
       ELSE /\ pc' = "transact"
            /\ UNCHANGED <<batchElements, pruneLog>>
    /\ UNCHANGED <<cfgVars, ledgerVars, svcVars, rangeVars, sendVars, i,
                   totalTxSize, shouldStartAt, args, sendsInFlight, cyc, prev>>

\* the transaction RawTransact signs and publishes
BatchTx ==
    LET params == GenSequencerBatchParams(shouldStartAt, BlockOffset,
                                          batchElements)
    IN  [callDataLen |-> BatchCallDataLen(params),
         shouldStartAt |-> shouldStartAt,
         numElements |-> Len(batchElements),
         nonce |-> nonce,
         gasPrice |-> gasPrice]

\* SubmitBatchTx: NewKeyedTransactorWithChainID and RawTransact; sendTx logs
\* the submission with its start and end and returns the transaction
RawTransact ==
    /\ pc = "transact"
    /\ \/ /\ UNCHANGED <<published, cyc>>
       \/ /\ published' = published \cup {BatchTx}
          /\ cyc' = [cyc EXCEPT !.loggedEnd = end]
    /\ pc' = "sendwait"
    /\ DriverIdle
    /\ UNCHANGED <<cfgVars, ledgerVars, svcVars, rangeVars, gasPrice,
                   escalations, sendsInFlight, prev>>

\* s.metrics.FailedSubmissions.Inc() runs when Send returned an error
FailedSubmissionsIncAlways(result) == 1
FailedSubmissionsIncNever(result) == 0
FailedSubmissionsInc(result) == IF result = "receipt" THEN 0 ELSE 1

\* s.metrics.BatchesSubmitted.Inc() runs when Send returned a receipt
BatchesSubmittedInc(result) == IF result = "receipt" THEN 1 ELSE 0

\* what the loop does after txMgr.Send has returned
AfterSend(result) ==
    /\ cyc' = [cyc EXCEPT !.sendResult = result,
                          !.failedInc = @ + FailedSubmissionsInc(result),
                          !.submittedInc = @ + BatchesSubmittedInc(result)]
    /\ sendsInFlight' = sendsInFlight - 1
    /\ published' = {}
    /\ gasPrice' = None
    /\ escalations' = 0
    /\ pc' = "wait"

\* txMgr.Send, Waiting: one of the published transactions is mined
SendConfirmed ==
    /\ pc = "sendwait"
    /\ l1Nonce < MaxNonce
    /\ \E tx \in published :
          /\ tx.nonce = l1Nonce
          /\ l1Total' = l1Total + tx.numElements
          /\ l1Nonce' = l1Nonce + 1
    /\ AfterSend("receipt")
    /\ UNCHANGED <<cfgVars, l2Blocks, svcVars, rangeVars, driverVars, prev>>

\* txMgr.Send, Waiting: the sub-interval elapses, the price is raised and
\* sendTx is called again
SendEscalate ==
    /\ pc = "sendwait"
    /\ escalations < MaxEscalations
    /\ gasPrice' = Min(gasPrice * PriceFactor, GasCeiling)
    /\ escalations' = escalations + 1
    /\ pc' = "send"
    /\ UNCHANGED <<cfgVars, ledgerVars, svcVars, rangeVars, published,
                   driverVars, sendsInFlight, cyc, prev>>

\* txMgr.Send, Failed: the overall deadline elapses
SendTimeout ==
    /\ pc = "sendwait"
    /\ AfterSend("timeout")
    /\ UNCHANGED <<cfgVars, ledgerVars, svcVars, rangeVars, driverVars, prev>>

\* txMgr.Send: the context is cancelled while waiting
SendCancelled ==
    /\ pc = "sendwait"
    /\ ctxCancelled
    /\ AfterSend("cancelled")
    /\ UNCHANGED <<cfgVars, ledgerVars, svcVars, rangeVars, driverVars, prev>>

(***************************************************************************)
(* Specification                                                           *)
(***************************************************************************)

LoopNext ==
    \/ Tick
    \/ CtxDone
    \/ BalanceAt
    \/ GetTotalElements
    \/ HeaderByNumber
    \/ NonceAt
    \/ SendBroadcast
    \/ Accumulate
    \/ Serialize
    \/ RawTransact
    \/ SendConfirmed
    \/ SendEscalate
    \/ SendTimeout
    \/ SendCancelled

Next ==
    \/ Start
    \/ StopCancel
    \/ StopReturn
    \/ ParentCancel
    \/ L2Produce
    \/ LoopNext

Spec == Init /\ [][Next]_vars

\* the goroutine of the event loop keeps running; at the select a cancelled
\* context is eventually taken, since its case is ready at once and the
\* timer's is not; a Stop waiting in wg.Wait resumes when the counter is zero
FairSpec ==
    /\ Spec
    /\ WF_vars(LoopNext)
    /\ SF_vars(CtxDone)
    /\ WF_vars(StopReturn)

(***************************************************************************)
(* Properties                                                              *)
(***************************************************************************)

\* C1: a range GetBatchBlockRange returns without error has start <= end; a
\* committed counter plus BlockOffset above the L2 head plus one gives an
\* error; and a cycle whose range resolution failed reads no nonce and calls
\* neither SubmitBatchTx nor txMgr.Send.
C1_RangeResolution ==
    /\ cyc.range \in {"ok", "empty"} =>
           /\ start # None /\ end # None
           /\ start <= end
    /\ (cyc.readHead # None /\ cyc.readTotal + BlockOffset > cyc.readHead + 1)
           => cyc.range = "err"
    /\ cyc.range = "err" =>
           /\ ~cyc.nonceRead
           /\ cyc.submitCalls = 0
           /\ ~cyc.sendCalled

\* C1 witness: both ledgers were read and found inconsistent
C1_Witness ==
    /\ cyc.range = "err"
    /\ cyc.readHead # None
    /\ cyc.readTotal + BlockOffset > cyc.readHead + 1

\* C2: the call data of every published transaction is at most MaxTxSize.
C2_CallDataFits ==
    \A tx \in published : tx.callDataLen <= MaxTxSize

\* C2 witness: a non-empty batch was published after pruning
C2_Witness ==
    \E tx \in published :
        /\ tx.numElements > 0
        /\ tx.numElements < end - start

\* C3: the serialize-and-prune loop of SubmitBatchTx is always left.
C3_PruneLoopTerminates ==
    (pc = "serialize") ~> (pc # "serialize")

\* C4: every prune leaves strictly fewer elements than it found.
C4_PruneStrictlyDecreases ==
    pruneLog # NoPrune => pruneLog.new < pruneLog.old

\* C5 as stated: the end the service attributes to a submission is the end
\* that was encoded, start plus the number of encoded elements.
C5_AttributesCoveredEnd ==
    \A tx \in published : cyc.loggedEnd = cyc.resolved.start + tx.numElements

\* C5 amended: the service attributes the requested end to every submission;
\* the call data carries the covered range, which starts at start and has at
\* most end - start elements.
C5_AttributesRequestedEnd ==
    \A tx \in published :
        /\ cyc.loggedEnd = cyc.resolved.end
        /\ tx.shouldStartAt = cyc.resolved.start
        /\ tx.numElements <= cyc.resolved.end - cyc.resolved.start

\* C5 witness: fewer elements were encoded than the range holds
C5_Witness ==
    \E tx \in published : tx.numElements < cyc.resolved.end - cyc.resolved.start

\* C6: at most one txMgr.Send is in progress, and the steps of a cycle that
\* precede Send run only while no Send is in progress.
C6_Sequential ==
    /\ sendsInFlight <= 1
    /\ pc \in {"balance", "rangeL1", "rangeL2", "nonce"} => sendsInFlight = 0
    /\ sendsInFlight = 1 => pc \in SendPcs

\* C6 witness: the Send of a cycle that follows a confirmed submission
C6_Witness ==
    /\ sendsInFlight = 1
    /\ l1Nonce > 0
    /\ pc = "sendwait"

\* C7 as stated: a cycle whose balance read failed still resolves the range.
C7_BalanceFailureOnlySkipsMetric ==
    (cyc.balance = "err" /\ pc = "wait") =>
        /\ ~cyc.ethBalanceSet
        /\ cyc.range # "none"

\* C7 amended: a failed balance read ends the cycle: the metric is not set,
\* and neither the range nor the nonce is read, nor is Send called.
C7_BalanceFailureEndsCycle ==
    cyc.balance = "err" =>
        /\ pc \in {"wait", "exited"}
        /\ ~cyc.ethBalanceSet
        /\ cyc.range = "none"
        /\ ~cyc.nonceRead
        /\ ~cyc.sendCalled
        /\ cyc.submitCalls = 0

\* C7 witness: a cycle ended by a failed balance read
C7_Witness ==
    cyc.balance = "err" /\ pc = "wait" /\ ~ctxCancelled

\* a cycle that an error has ended
CycleFailed(c) ==
    \/ c.balance = "err"
    \/ c.range = "err"
    \/ c.nonceRead /\ ~c.sendCalled
    \/ c.sendResult \in {"timeout", "cancelled"}

\* C8: the loop exits only from the select, with the context cancelled, and
\* every failure of a cycle leads back to the select.
C8_OnlyCancellationExits ==
    [][ /\ (pc # "exited" /\ pc' = "exited") => (pc = "wait" /\ ctxCancelled)
        /\ (~CycleFailed(cyc) /\ CycleFailed(cyc')) => pc' = "wait"
      ]_vars

\* C8 witness: a cycle failed in Send and the loop is back at the select with
\* a live context
C8_Witness ==
    /\ cyc.sendResult = "timeout"
    /\ pc = "wait"
    /\ ~ctxCancelled

\* every Send in progress when the context is cancelled returns
SendReturnsOnCancel ==
    [](pc \in SendPcs /\ ctxCancelled => <>(pc \notin SendPcs))

\* C9: Stop never returns before the loop has exited, and, if every Send
\* returns once the context is cancelled, a Stop that was called returns.
C9_StopWaitsAndReturns ==
    /\ [](svc = "stopped" => pc = "exited")
    /\ SendReturnsOnCancel => ((svc = "stopping") ~> (svc = "stopped"))

\* C9 witness: Stop returned after it had cancelled a Send in progress
C9_Witness ==
    /\ svc = "stopped"
    /\ cyc.sendResult = "cancelled"

\* C10: throughout Send the closure's start, end and nonce are the values the
\* cycle resolved, every SubmitBatchTx invocation received them, and every
\* published transaction carries that nonce.
C10_SameArguments ==
    /\ pc \in SendPcs =>
           [start |-> start, end |-> end, nonce |-> nonce] = cyc.resolved
    /\ pc \in SubmitPcs => args = cyc.resolved
    /\ \A tx \in published : tx.nonce = cyc.resolved.nonce

\* C10 witness: a second invocation, at a raised gas price, has published
C10_Witness ==
    /\ cyc.submitCalls = 2
    /\ \E t1, t2 \in published : t1.gasPrice # t2.gasPrice

\* C11 as stated: every cycle that an error has ended has incremented a
\* failure counter.
C11_EveryFailureCounted ==
    (CycleFailed(cyc) /\ pc = "wait") => cyc.failedInc >= 1

\* C11 amended: FailedSubmissions is incremented, by one, exactly in a cycle
\* whose txMgr.Send returned an error; a cycle ended by a failed balance
\* read, range resolution or nonce read changes neither counter.
C11_OnlySendFailureCounted ==
    /\ cyc.failedInc =
           IF cyc.sendResult \in {"timeout", "cancelled"} THEN 1 ELSE 0
    /\ (cyc.balance = "err" \/ cyc.range = "err"
            \/ (cyc.nonceRead /\ ~cyc.sendCalled)) =>
           /\ cyc.failedInc = 0
           /\ cyc.submittedInc = 0
           /\ cyc.sendResult = "none"

\* C11 witness: a cycle ended by a failed nonce read, no counter incremented
C11_Witness ==
    /\ cyc.nonceRead /\ ~cyc.sendCalled
    /\ pc = "wait"
    /\ cyc.failedInc = 0

\* the blocks of heights s .. e - 1 as batch elements, in height order
RangeElements(s, e) ==
    [k \in 1..(e - s) |-> BatchElementFromBlock(s + k - 1)]

\* no block of heights s .. e - 1 is a sequencer element
AllEnqueued(s, e) ==
    \A h \in s..(e - 1) : h <= l2Head /\ ~IsSequencerTx(BatchElementFromBlock(h))

C14_RangeValuesAndFrame ==
    [][ /\ (pc = "rangeL1" /\ pc' = "rangeL2") =>
               start' = l1Total + BlockOffset
        /\ (pc = "rangeL2" /\ cyc'.range \in {"ok", "empty"}) =>
               /\ start' = start
               /\ end' = l2Head + 1
               /\ start' = cyc'.readTotal + BlockOffset
        /\ (pc \in {"rangeL1", "rangeL2"} /\ pc' # pc) =>
               UNCHANGED <<cfgVars, ledgerVars, driverVars, sendVars>>
      ]_vars

\* C14 witness: a range was resolved under a non-zero BlockOffset after the
\* L2 chain had grown
C14_Witness ==
    /\ cyc.range = "ok"
    /\ BlockOffset > 0
    /\ start = cyc.readTotal + BlockOffset
    /\ end = cyc.readHead + 1
    /\ cyc.readHead > 0

\* C15 as stated: a prune cuts a list of n elements to n - floor(n / 10).
C15_DropsTenthRoundedDown ==
    pruneLog # NoPrune => pruneLog.new = pruneLog.old - (pruneLog.old \div 10)

\* C15 amended: a prune cuts a list of n elements to floor(9 * n / 10), that
\* is, it drops ceil(n / 10) elements, the last ones: a tenth rounded up, at
\* least one element of a non-empty list.
C15_KeepsNineTenthsRoundedDown ==
    /\ pruneLog # NoPrune =>
           /\ pruneLog.new = pruneLog.old - ((pruneLog.old + 9) \div 10)
           /\ Len(batchElements) = pruneLog.new
    /\ \A n \in 0..MaxPruneLen :
           /\ newBatchElementsLen(n) = n - ((n + 9) \div 10)
           /\ n > 0 => newBatchElementsLen(n) < n

\* C15 witness: a list of one element was pruned
C15_Witness ==
    /\ pruneLog # NoPrune
    /\ pruneLog.old = 1
    /\ batchElements = <<>>

\* C16: the running total of the accumulation loop is the sum, over the
\* sequencer elements included, of length prefix plus transaction size,
\* enqueued elements adding nothing, and it never exceeds MaxTxSize; when the
\* loop stops before end, it stops at a sequencer element that would have
\* taken the total above MaxTxSize, every block before it is included, and
\* that element is not.
C16_EstimateBoundsAccumulation ==
    args # NoArgs =>
        /\ totalTxSize <= MaxTxSize
        /\ pruneLog = NoPrune =>
               /\ totalTxSize = SumTxLen(batchElements)
               /\ batchElements = RangeElements(args.start, i)
        /\ (pc = "serialize" /\ pruneLog = NoPrune /\ i < args.end) =>
               LET el == BatchElementFromBlock(i) IN
               /\ IsSequencerTx(el)
               /\ totalTxSize + (TxLenSize + el.Tx) > MaxTxSize

\* C16 witness: the loop stopped at the second block, a sequencer element
\* that did not fit, after an enqueued one that was included
C16_Witness ==
    /\ pc = "serialize"
    /\ pruneLog = NoPrune
    /\ i < args.end
    /\ IsSequencerTx(BatchElementFromBlock(i))
    /\ Len(batchElements) = 1
    /\ totalTxSize = 0

\* C17: the step in which txMgr.Send returns adds one to exactly one of the
\* two outcome counters, FailedSubmissions for an error and BatchesSubmitted
\* for a receipt; no other step of a cycle changes either counter; so the
\* increments of a cycle add up to the number of its Send calls that have
\* returned, and over all cycles the counters add up to the number of Send
\* calls that have returned.
C17_OneCounterPerSend ==
    /\ [][ (sendsInFlight' # sendsInFlight =>
               \/ /\ sendsInFlight' = sendsInFlight + 1
                  /\ cyc'.failedInc = cyc.failedInc
                  /\ cyc'.submittedInc = cyc.submittedInc
               \/ /\ sendsInFlight' = sendsInFlight - 1
                  /\ cyc'.sendResult = "receipt"
                  /\ cyc'.submittedInc = cyc.submittedInc + 1
                  /\ cyc'.failedInc = cyc.failedInc
               \/ /\ sendsInFlight' = sendsInFlight - 1
                  /\ cyc'.sendResult \in {"timeout", "cancelled"}
                  /\ cyc'.failedInc = cyc.failedInc + 1
                  /\ cyc'.submittedInc = cyc.submittedInc)
           /\ ((sendsInFlight' = sendsInFlight /\ cyc' # CycNew) =>
                  /\ cyc'.failedInc = cyc.failedInc
                  /\ cyc'.submittedInc = cyc.submittedInc)
       ]_vars
    /\ [](cyc.failedInc + cyc.submittedInc =
             (IF cyc.sendCalled THEN 1 ELSE 0) - sendsInFlight)

\* C17 witness: a Send has returned a receipt and BatchesSubmitted alone was
\* incremented
C17_Witness ==
    /\ cyc.sendResult = "receipt"
    /\ cyc.submittedInc = 1
    /\ cyc.failedInc = 0
    /\ sendsInFlight = 0

\* C18: once a cycle has resolved a range with start equal to end, the loop
\* is back at the select (or has left through it): the cycle has read no
\* nonce, has called neither SubmitBatchTx nor txMgr.Send, and has changed
\* neither BatchesSubmitted nor FailedSubmissions.
C18_EmptyRangeEndsCycle ==
    (cyc.range \in {"ok", "empty"} /\ start = end) =>
        /\ cyc.range = "empty"
        /\ pc \in {"wait", "exited"}
        /\ ~cyc.nonceRead
        /\ ~cyc.sendCalled
        /\ cyc.submitCalls = 0
        /\ sendsInFlight = 0
        /\ cyc.failedInc = 0
        /\ cyc.submittedInc = 0

\* C18 witness: a cycle found the committed counter level with the L2 head
\* after an earlier submission was confirmed, and waits for the next tick
C18_Witness ==
    /\ cyc.range = "empty"
    /\ start = end
    /\ pc = "wait"
    /\ ~ctxCancelled
    /\ prev.confirmed

\* C19: once the context is cancelled, the select does not take the timer's
\* case: no polling cycle begins, so no balance read is initiated.
C19_NoCycleAfterCancel ==
    [][ctxCancelled => ~(pc = "wait" /\ pc' = "balance")]_vars

\* C20: throughout SubmitBatchTx the element list is a prefix of the
\* requested range: its k-th element, counting from 0, is the element of the
\* block of height start + k, it is no longer than end - start, and it holds
\* no block at or above the height at which accumulation stopped.
C20_ContiguousPrefix ==
    args # NoArgs =>
        /\ batchElements =
               RangeElements(args.start, args.start + Len(batchElements))
        /\ Len(batchElements) <= i - args.start
        /\ i <= args.end
        /\ \A k \in 1..Len(batchElements) :
               batchElements[k].BlockNumber = args.start + (k - 1)

\* C20 witness: a list of two elements was pruned to its first, which is
\* about to be published
C20_Witness ==
    /\ pc = "transact"
    /\ pruneLog # NoPrune
    /\ Len(batchElements) = 1
    /\ batchElements[1].BlockNumber = args.start
    /\ args.end - args.start = 2

====
